---- MODULE Spec2Model ----
(***************************************************************************)
(* Attribute filtering of the GraphQL "attributes" query.                  *)
(*                                                                         *)
(* The store (attributes, product types, products, categories, the         *)
(* collection, channel listings, permissions) is mutated by the "given"    *)
(* steps of saleor/graphql/attribute/tests/queries/test_attribute_filter.py*)
(* and read by filter_attributes_by_product_types and by the type filter.  *)
(* The body of filter_attributes_by_product_types is not part of the       *)
(* sources at hand; its control flow follows section 4.1 of the            *)
(* specification, and the visibility rules follow the assertions of the    *)
(* tests.  The ids, type and display flag filters are modelled from their  *)
(* tests as well.  Migration 0029 of app "site" is modelled from its       *)
(* operations.                                                             *)
(***************************************************************************)
EXTENDS Integers, FiniteSets, Sequences, TLC

(* ------------------------------ bounds --------------------------------- *)

MaxProducts == 2

MaxAttributes == 2

\* Longest list of global IDs passed to the ids filter.
MaxIds == 3

(* ------------------------------ fixtures ------------------------------- *)

\* product_list: every product starts in the default product type, in the
\* same category, listed (published, visible) in channel_USD only;
\* channel_other is a channel without listings.
product_list == 1..MaxProducts

last_product == MaxProducts

Attributes == 1..MaxAttributes

\* The product type of the fixtures and "Default Type 2" (slug
\* default-type-2), the one type the tests create.
ProductTypePks == {1, 2}

DefaultProductType == 1

\* pk 1 is the category of product_list, pk 2 an existing category without
\* products; -1 is the pk the tests use for a category that does not exist.
Categories == {1, 2}

ProductCategory == 1

NonExistingPk == 0 - 1

Collections == {1}

channel_USD == "channel_USD"

channel_other == "channel_other"

Channels == {channel_USD, channel_other}

NoChannel == "None"

AttributeTypes == {"PRODUCT_TYPE", "PAGE_TYPE"}

\* api_client, user_api_client, staff_api_client, app_api_client
RequestorKinds == {"anonymous", "customer", "staff", "app"}

permission_manage_products == "manage_products"

(* ------------------------------ values --------------------------------- *)

NoneValue == [tag |-> "None"]

Str(s) == [tag |-> "str", s |-> s]

\* graphene.Node.to_global_id(type, pk): an opaque identifier that decodes
\* to (type, pk).
to_global_id(type, pk) == [tag |-> "gid", type |-> type, pk |-> pk]

Malformed == <<"malformed">>

from_global_id(value) ==
    IF value.tag = "gid" THEN <<value.type, value.pk>> ELSE Malformed

IsEmptyValue_only_none(value) == value.tag = "None"

\* Python truthiness of the filter value: "" and None are falsy.
IsEmptyValue(value) ==
    \/ value.tag = "None"
    \/ value.tag = "str" /\ value.s = ""

(* ------------------------------ querysets ------------------------------ *)

\* A queryset is an object (obj: how it was derived) with its rows (items).
\* Two querysets are the same object iff the records are equal.
Queryset(items) == [obj |-> <<"all">>, items |-> items]

none(qs) == [obj |-> Append(qs.obj, "none"), items |-> {}]

filter(qs, items) == [obj |-> Append(qs.obj, "filter"), items |-> items]

VARIABLES
    schema,              \* the fields of the models, by (model_name, name)
    applied_migrations,  \* the migrations of app "site" applied so far
    filterable_in_dashboard, \* Attribute.filterable_in_dashboard
    available_in_grid,   \* Attribute.available_in_grid
    attribute_type,      \* Attribute.type
    product_types,       \* pks of the existing ProductType rows
    product_attributes,  \* ProductType.product_attributes (many-to-many)
    product_type,        \* Product.product_type
    channel_listings,    \* Product.channel_listings, per channel
    collection_products, \* Collection.products
    user_permissions,    \* requestor kinds holding permission_manage_products
    pc,                  \* "idle" or "returned"
    call,                \* arguments of the last call
    result               \* outcome of the last call

store == <<schema, applied_migrations, filterable_in_dashboard, available_in_grid, attribute_type, product_types, product_attributes, product_type,
           channel_listings, collection_products, user_permissions>>

vars == <<schema, applied_migrations, filterable_in_dashboard, available_in_grid, attribute_type, product_types, product_attributes, product_type,
          channel_listings, collection_products, user_permissions,
          pc, call, result>>

NoCall == [op |-> "none"]

NoResult == [kind |-> "none"]

Returned(qs, lookups) == [kind |-> "queryset", qs |-> qs, lookups |-> lookups]

Raised(exc, args) == [kind |-> "error", exc |-> exc, args |-> args]

(* --------------------------- visibility rules -------------------------- *)

Requestor(kind, permissions) == [kind |-> kind, permissions |-> permissions]

has_manage_products(requestor) ==
    permission_manage_products \in requestor.permissions

sees_all_products_customer(requestor) ==
    requestor.kind \in {"staff", "app", "customer"}

sees_all_products_app_only(requestor) == requestor.kind = "app"

sees_all_products_inverted(requestor) ==
    requestor.kind \notin {"staff", "app"}

sees_all_products_with_perm(requestor) ==
    /\ requestor.kind \in {"staff", "app"}
    /\ has_manage_products(requestor)

\* Who is served products whose channel listing is unpublished or hidden
\* from listings: staff users and apps, with or without manage_products;
\* customers (and anonymous requestors) are not.
sees_all_products(requestor) == requestor.kind \in {"staff", "app"}

excludes_not_visible_in_listings_always(field) == TRUE

excludes_not_visible_in_listings_never(field) == FALSE

\* Whether visible_in_listings = False hides a product from a requestor who
\* is not served all products: it does under in_category, not under
\* in_collection.
excludes_not_visible_in_listings(field) == field = "in_category"

SupportedFields == {"in_category", "in_collection"}

unsupported_message_fixed(field) == "Filtering by in_space is unsupported"

unsupported_message(field) == "Filtering by " \o field \o " is unsupported"

(* ------------------------------ the store ------------------------------ *)

Listing(is_published, visible_in_listings) ==
    [is_published |-> is_published, visible_in_listings |-> visible_in_listings]

has_listing(product, channel_slug) ==
    <<product, channel_slug>> \in DOMAIN channel_listings

category_of(product) == ProductCategory

container_products(field, pk) ==
    IF field = "in_category"
    THEN {p \in product_list : category_of(p) = pk}
    ELSE IF pk \in Collections THEN collection_products[pk] ELSE {}

category_exists_always(pk) == TRUE

\* Category.objects.filter(pk=category_id).first() is not None
category_exists(pk) == pk \in Categories

collection_exists(pk) == pk \in Collections

container_exists(field, pk) ==
    IF field = "in_category" THEN category_exists(pk) ELSE collection_exists(pk)

\* The products of the container that the requestor is served in the channel.
visible_products(field, pk, requestor, channel_slug) ==
    {p \in container_products(field, pk) :
        /\ has_listing(p, channel_slug)
        /\ \/ sees_all_products(requestor)
           \/ /\ channel_listings[<<p, channel_slug>>].is_published
              /\ \/ ~excludes_not_visible_in_listings(field)
                 \/ channel_listings[<<p, channel_slug>>].visible_in_listings}

\* Q(product_types__in=types): the attributes assigned to one of the types.
attributes_of_product_types(types) ==
    {a \in Attributes : \E pt \in types : a \in product_attributes[pt]}

(* ------------------ filter_attributes_by_product_types ----------------- *)

malformed_id_result_fault(qs) == Raised("GraphQLError", <<"Couldn't resolve id">>)

\* A value that does not decode yields an empty result.
malformed_id_result(qs) == Returned(none(qs), {})

filter_attributes_by_product_types(qs, field, value, requestor, channel_slug) ==
    IF IsEmptyValue(value)
    THEN Returned(qs, {})
    ELSE IF field \notin SupportedFields
    THEN Raised("NotImplementedError", <<unsupported_message(field)>>)
    ELSE LET decoded == from_global_id(value) IN
         IF decoded = Malformed
         THEN malformed_id_result(qs)
         ELSE IF ~container_exists(field, decoded[2])
         THEN Returned(none(qs), {decoded[1]})
         ELSE LET products == visible_products(field, decoded[2],
                                               requestor, channel_slug)
                  types == {product_type[p] : p \in products}
              IN Returned(filter(qs, qs.items
                                     \cap attributes_of_product_types(types)),
                          {decoded[1], "Product"})

(* ------------------------------ type filter ---------------------------- *)

filter_attribute_type_product_all(qs, value) ==
    filter(qs, {a \in qs.items :
                   value = "PRODUCT_TYPE" \/ attribute_type[a] = value})

\* filter: {type: PAGE_TYPE | PRODUCT_TYPE} of the attributes query.
filter_attribute_type(qs, value) ==
    filter(qs, {a \in qs.items : attribute_type[a] = value})

(* ------------------- site migration 0029_auto_20210118_1150 ------------ *)

CharField(choices, default, max_length) ==
    [type |-> "CharField", choices |-> choices, default |-> default,
     max_length |-> max_length]

choices_without_kg ==
    << <<"g", "g">>, <<"tonne", "tonne">>, <<"oz", "oz">>, <<"lb", "lb">>,
       <<"stone", "stone">>, <<"short_ton", "short_ton">>,
       <<"long_ton", "long_ton">>, <<"g", "g">> >>

\* choices=[...] of the altered field, as (value, label) pairs.
choices ==
    << <<"g", "g">>, <<"tonne", "tonne">>, <<"oz", "oz">>, <<"lb", "lb">>,
       <<"stone", "stone">>, <<"short_ton", "short_ton">>,
       <<"long_ton", "long_ton">>, <<"kg", "kg">> >>

\* field=models.CharField(choices=[...], default="kg", max_length=30)
default_weight_unit == CharField(choices, "kg", 30)

dependencies == {<<"site", "0028_delete_authorizationkey">>}

Migration0029 == <<"site", "0029_auto_20210118_1150">>

AlteredField == <<"sitesettings", "default_weight_unit">>

\* migrations.AlterField(model_name, name, field): the named field of the
\* named model takes the new definition.
AlterField(state, model_name, name, new_field) ==
    [state EXCEPT ![<<model_name, name>>] = new_field]

\* operations = [migrations.AlterField(...)]
operations(state) ==
    AlterField(state, "sitesettings", "default_weight_unit", default_weight_unit)

\* The migration runs once, after its dependencies.
ApplyMigration ==
    /\ pc = "idle"
    /\ dependencies \subseteq applied_migrations
    /\ Migration0029 \notin applied_migrations
    /\ AlteredField \in DOMAIN schema
    /\ schema' = operations(schema)
    /\ applied_migrations' = applied_migrations \cup {Migration0029}
    /\ UNCHANGED <<filterable_in_dashboard, available_in_grid, attribute_type,
                   product_types, product_attributes, product_type,
                   channel_listings, collection_products, user_permissions,
                   pc, call, result>>

\* The models' fields the migration is applied to: the field it alters, another
\* field of the same model and a field of the same name in another model.
SchemaFields ==
    {AlteredField, <<"sitesettings", "name">>, <<"product", "default_weight_unit">>}

\* Definitions a field may have before the migration: choices among the
\* units, a default among the choices, a max_length.
EarlierUnits == {"kg", "lb", "oz", "g"}

RECURSIVE ChoicesOf(_)
ChoicesOf(units) ==
    IF units = {} THEN <<>>
    ELSE LET u == CHOOSE x \in units : TRUE
         IN <<<<u, u>>>> \o ChoicesOf(units \ {u})

EarlierFields ==
    {CharField(ChoicesOf(units), default, max_length) :
        units \in (SUBSET EarlierUnits) \ {{}},
        default \in EarlierUnits,
        max_length \in {10, 30}}

\* The schema the tests run on: every migration applied.
Migrated ==
    /\ schema = [f \in SchemaFields |->
                    IF f = AlteredField THEN default_weight_unit
                    ELSE CharField(ChoicesOf({"kg"}), "kg", 10)]
    /\ applied_migrations = dependencies \cup {Migration0029}

(* -------------------------------- Init --------------------------------- *)

\* The fixtures: product_type_attribute_list holds product-type attributes,
\* the default product type carries the first of them.
Fixtures ==
    /\ filterable_in_dashboard = [a \in Attributes |-> TRUE]
    /\ available_in_grid = [a \in Attributes |-> TRUE]
    /\ product_types = {DefaultProductType}
    /\ product_attributes = [pt \in {DefaultProductType} |-> {1}]
    /\ product_type = [p \in product_list |-> DefaultProductType]
    /\ channel_listings =
          [l \in product_list \X {channel_USD} |-> Listing(TRUE, TRUE)]
    /\ collection_products = [c \in Collections |-> {}]
    /\ user_permissions = {}
    /\ pc = "idle"
    /\ call = NoCall
    /\ result = NoResult

Init ==
    /\ attribute_type = [a \in Attributes |-> "PRODUCT_TYPE"]
    /\ Fixtures
    /\ Migrated

\* Before migration 0029: its dependencies are applied, the fields have one of
\* their earlier definitions.
InitMigration ==
    /\ attribute_type = [a \in Attributes |-> "PRODUCT_TYPE"]
    /\ Fixtures
    /\ applied_migrations = dependencies
    /\ schema \in [SchemaFields -> EarlierFields]
    /\ \A f \in SchemaFields :
          \E i \in DOMAIN schema[f].choices :
             schema[f].choices[i][1] = schema[f].default

\* size_page_attribute next to product_type_attribute_list: any split of the
\* attributes into page-type and product-type ones.
InitType ==
    /\ attribute_type \in [Attributes -> AttributeTypes]
    /\ Fixtures
    /\ Migrated

(* ------------------------- the tests' given steps ---------------------- *)

\* ProductType.objects.create(...)
CreateProductType ==
    /\ pc = "idle"
    /\ Cardinality(product_types) < Cardinality(ProductTypePks)
    /\ LET pk == Cardinality(product_types) + 1 IN
          /\ product_types' = product_types \cup {pk}
          /\ product_attributes' = product_attributes @@ (pk :> {})
    /\ UNCHANGED <<schema, applied_migrations, filterable_in_dashboard, available_in_grid, attribute_type, product_type, channel_listings,
                   collection_products, user_permissions, pc, call, result>>

\* product_type.product_attributes.add(weight_attribute)
AddProductAttribute(pt, a) ==
    /\ pc = "idle"
    /\ pt \in product_types \ {DefaultProductType}
    /\ product_attributes' =
          [product_attributes EXCEPT ![pt] = @ \cup {a}]
    /\ UNCHANGED <<schema, applied_migrations, filterable_in_dashboard, available_in_grid, attribute_type, product_types, product_type,
                   channel_listings, collection_products, user_permissions,
                   pc, call, result>>

\* last_product.product_type = product_type; last_product.save(...)
SetProductType(pt) ==
    /\ pc = "idle"
    /\ pt \in product_types
    /\ product_type' = [product_type EXCEPT ![last_product] = pt]
    /\ UNCHANGED <<schema, applied_migrations, filterable_in_dashboard, available_in_grid, attribute_type, product_types, product_attributes,
                   channel_listings, collection_products, user_permissions,
                   pc, call, result>>

\* last_product.channel_listings.all().update(visible_in_listings=False)
UpdateVisibleInListings ==
    /\ pc = "idle"
    /\ channel_listings' =
          [l \in DOMAIN channel_listings |->
              IF l[1] = last_product
              THEN [channel_listings[l] EXCEPT !.visible_in_listings = FALSE]
              ELSE channel_listings[l]]
    /\ UNCHANGED <<schema, applied_migrations, filterable_in_dashboard, available_in_grid, attribute_type, product_types, product_attributes,
                   product_type, collection_products, user_permissions,
                   pc, call, result>>

\* last_product.channel_listings.all().update(is_published=False)
UpdateIsPublished ==
    /\ pc = "idle"
    /\ channel_listings' =
          [l \in DOMAIN channel_listings |->
              IF l[1] = last_product
              THEN [channel_listings[l] EXCEPT !.is_published = FALSE]
              ELSE channel_listings[l]]
    /\ UNCHANGED <<schema, applied_migrations, filterable_in_dashboard, available_in_grid, attribute_type, product_types, product_attributes,
                   product_type, collection_products, user_permissions,
                   pc, call, result>>

\* collection.products.add(product)
CollectionAdd(c, p) ==
    /\ pc = "idle"
    /\ collection_products' = [collection_products EXCEPT ![c] = @ \cup {p}]
    /\ UNCHANGED <<schema, applied_migrations, filterable_in_dashboard, available_in_grid, attribute_type, product_types, product_attributes,
                   product_type, channel_listings, user_permissions,
                   pc, call, result>>

\* staff_api_client.user.user_permissions.add(permission_manage_products),
\* app_api_client.app.permissions.add(permission_manage_products)
AddPermission(kind) ==
    /\ pc = "idle"
    /\ kind \in {"staff", "app"}
    /\ user_permissions' = user_permissions \cup {kind}
    /\ UNCHANGED <<schema, applied_migrations, filterable_in_dashboard, available_in_grid, attribute_type, product_types, product_attributes,
                   product_type, channel_listings, collection_products,
                   pc, call, result>>

(* ------------------------------- the calls ----------------------------- *)

\* Attribute.objects.all(), or a queryset already narrowed: one without the
\* attribute of the default product type.
InputQuerysets == {Queryset(Attributes), Queryset(Attributes \ {1})}

\* The querysets the type filter is applied to: any selection of attributes.
TypeInputQuerysets == {Queryset(items) : items \in SUBSET Attributes}

EmptyValues == {Str(""), NoneValue}

Fields == {"in_category", "in_collection", "in_space", "..."}

\* The values a field is called with: empty ones, a string that is not a
\* global ID, and global IDs of the container type of the field.
ValuesFor(field) ==
    EmptyValues \cup {Str("a-value")} \cup
    (IF field = "in_category"
     THEN {to_global_id("Category", pk) : pk \in Categories \cup {NonExistingPk}}
     ELSE IF field = "in_collection"
     THEN {to_global_id("Collection", pk) : pk \in Collections \cup {NonExistingPk}}
     ELSE {})

permissions_of(kind) ==
    IF kind \in user_permissions THEN {permission_manage_products} ELSE {}

Filter_granting(qs, field, value, kind, channel_slug) ==
    /\ pc = "idle"
    /\ IsEmptyValue(value) \/ channel_slug # NoChannel
    /\ LET requestor == Requestor(kind, permissions_of(kind)) IN
          /\ call' = [op |-> "filter_attributes_by_product_types", qs |-> qs,
                      field |-> field, value |-> value,
                      requestor |-> requestor, channel_slug |-> channel_slug]
          /\ result' = filter_attributes_by_product_types(
                           qs, field, value, requestor, channel_slug)
    /\ pc' = "returned"
    /\ user_permissions' = user_permissions \cup ({kind} \cap {"staff", "app"})
    /\ UNCHANGED <<schema, applied_migrations, filterable_in_dashboard, available_in_grid, attribute_type,
                   product_types, product_attributes, product_type,
                   channel_listings, collection_products>>

Filter(qs, field, value, kind, channel_slug) ==
    /\ pc = "idle"
    /\ IsEmptyValue(value) \/ channel_slug # NoChannel
    /\ LET requestor == Requestor(kind, permissions_of(kind)) IN
          /\ call' = [op |-> "filter_attributes_by_product_types", qs |-> qs,
                      field |-> field, value |-> value,
                      requestor |-> requestor, channel_slug |-> channel_slug]
          /\ result' = filter_attributes_by_product_types(
                           qs, field, value, requestor, channel_slug)
    /\ pc' = "returned"
    /\ UNCHANGED store

FilterByType(qs, value) ==
    /\ pc = "idle"
    /\ call' = [op |-> "filter_attribute_type", qs |-> qs, value |-> value]
    /\ result' = Returned(filter_attribute_type(qs, value), {"Attribute"})
    /\ pc' = "returned"
    /\ UNCHANGED store

\* The test is over; the next one starts from the store as it is.
Return ==
    /\ pc = "returned"
    /\ pc' = "idle"
    /\ call' = NoCall
    /\ result' = NoResult
    /\ UNCHANGED store

Next ==
    \/ CreateProductType
    \/ \E pt \in ProductTypePks, a \in Attributes : AddProductAttribute(pt, a)
    \/ \E pt \in ProductTypePks : SetProductType(pt)
    \/ UpdateVisibleInListings
    \/ UpdateIsPublished
    \/ \E c \in Collections, p \in product_list : CollectionAdd(c, p)
    \/ \E kind \in RequestorKinds : AddPermission(kind)
    \/ \E qs \in InputQuerysets, field \in Fields, kind \in RequestorKinds,
          channel_slug \in Channels \cup {NoChannel} :
          \E value \in ValuesFor(field) :
             Filter(qs, field, value, kind, channel_slug)
    \/ Return

Spec == Init /\ [][Next]_vars

NextType ==
    \/ \E kind \in RequestorKinds : AddPermission(kind)
    \/ \E qs \in TypeInputQuerysets, value \in AttributeTypes :
          FilterByType(qs, value)
    \/ Return

SpecType == InitType /\ [][NextType]_vars

NextMigration == ApplyMigration

SpecMigration == InitMigration /\ [][NextMigration]_vars

(* --------------------------- display flag filters ---------------------- *)

\* color_attribute.filterable_in_dashboard = False
\* color_attribute.save(update_fields=["filterable_in_dashboard"])
SetFilterableInDashboard(a) ==
    /\ pc = "idle"
    /\ filterable_in_dashboard' = [filterable_in_dashboard EXCEPT ![a] = FALSE]
    /\ UNCHANGED <<schema, applied_migrations, available_in_grid, attribute_type, product_types,
                   product_attributes, product_type, channel_listings,
                   collection_products, user_permissions, pc, call, result>>

\* color_attribute.available_in_grid = False
\* color_attribute.save(update_fields=["available_in_grid"])
SetAvailableInGrid(a) ==
    /\ pc = "idle"
    /\ available_in_grid' = [available_in_grid EXCEPT ![a] = FALSE]
    /\ UNCHANGED <<schema, applied_migrations, filterable_in_dashboard, attribute_type, product_types,
                   product_attributes, product_type, channel_listings,
                   collection_products, user_permissions, pc, call, result>>

filter_filterable_in_dashboard_grid(qs, value) ==
    filter(qs, {a \in qs.items : available_in_grid[a] = value})

\* filter: {filterableInDashboard: value}
filter_filterable_in_dashboard(qs, value) ==
    filter(qs, {a \in qs.items : filterable_in_dashboard[a] = value})

\* filter: {availableInGrid: value}
filter_available_in_grid(qs, value) ==
    filter(qs, {a \in qs.items : available_in_grid[a] = value})

FlagFilters == {"filterableInDashboard", "availableInGrid"}

\* The tests filter by the flag being true.
FilterByFlag(qs, flag) ==
    /\ pc = "idle"
    /\ call' = [op |-> "filter_flag", qs |-> qs, flag |-> flag, value |-> TRUE]
    /\ result' = Returned(IF flag = "filterableInDashboard"
                          THEN filter_filterable_in_dashboard(qs, TRUE)
                          ELSE filter_available_in_grid(qs, TRUE),
                          {"Attribute"})
    /\ pc' = "returned"
    /\ UNCHANGED store

NextFlags ==
    \/ \E a \in Attributes : SetFilterableInDashboard(a)
    \/ \E a \in Attributes : SetAvailableInGrid(a)
    \/ \E qs \in TypeInputQuerysets, flag \in FlagFilters : FilterByFlag(qs, flag)
    \/ Return

SpecFlags == Init /\ [][NextFlags]_vars

(* ------------------------------- ids filter --------------------------- *)

\* The rows of a queryset in pk order, each row once.
rows(qs) == SelectSeq([i \in 1..MaxAttributes |-> i], LAMBDA a : a \in qs.items)

Edges(edges) == [kind |-> "edges", edges |-> edges]

RECURSIVE filter_ids_per_id(_, _)
filter_ids_per_id(qs, ids) ==
    IF ids = <<>> THEN <<>>
    ELSE SelectSeq(rows(qs), LAMBDA a : a = from_global_id(Head(ids))[2])
            \o filter_ids_per_id(qs, Tail(ids))

\* filter: {ids: [...]} of the attributes query: the rows whose pk is one of
\* the decoded pks.
filter_ids(qs, ids) ==
    LET pks == {from_global_id(ids[i])[2] : i \in DOMAIN ids}
    IN SelectSeq(rows(qs), LAMBDA a : a \in pks)

\* Global IDs of the attributes and of an attribute that does not exist.
AttributeIds ==
    {to_global_id("Attribute", pk) : pk \in Attributes \cup {NonExistingPk}}

IdLists == UNION {[1..n -> AttributeIds] : n \in 1..MaxIds}

FilterByIds(qs, ids) ==
    /\ pc = "idle"
    /\ call' = [op |-> "filter_ids", qs |-> qs, ids |-> ids]
    /\ result' = Edges(filter_ids(qs, ids))
    /\ pc' = "returned"
    /\ UNCHANGED store

NextIds ==
    \/ \E qs \in TypeInputQuerysets, ids \in IdLists : FilterByIds(qs, ids)
    \/ Return

SpecIds == Init /\ [][NextIds]_vars

TypeOK ==
    /\ pc \in {"idle", "returned"}
    /\ product_types \subseteq ProductTypePks
    /\ DOMAIN product_attributes = product_types

(* ======================= properties of the filter ====================== *)

FilterReturned ==
    /\ pc = "returned"
    /\ call.op = "filter_attributes_by_product_types"

\* The call names, by a well-formed global ID, a container of a supported field.
GidCall ==
    /\ FilterReturned
    /\ call.field \in {"in_category", "in_collection"}
    /\ call.value.tag = "gid"

CalledContainerExists ==
    \/ call.field = "in_category" /\ call.value.pk \in Categories
    \/ call.field = "in_collection" /\ call.value.pk \in Collections

ContainerCall == GidCall /\ CalledContainerExists

InCalledContainer(p) ==
    IF call.field = "in_category"
    THEN call.value.pk = ProductCategory
    ELSE p \in collection_products[call.value.pk]

\* The products of the called container, listed in the called channel, whose
\* product type carries attribute a.
Supporting(a) ==
    {p \in product_list :
        /\ InCalledContainer(p)
        /\ <<p, call.channel_slug>> \in DOMAIN channel_listings
        /\ a \in product_attributes[product_type[p]]}

ListingOf(p) == channel_listings[<<p, call.channel_slug>>]

Hidden(p) ==
    \/ ~ListingOf(p).is_published
    \/ ~ListingOf(p).visible_in_listings

\* Hidden from a customer: unpublished, or under in_category not visible in
\* listings.
HiddenFromCustomer(p) ==
    \/ ~ListingOf(p).is_published
    \/ call.field = "in_category" /\ ~ListingOf(p).visible_in_listings

OnlyHiddenSupport(a) ==
    /\ Supporting(a) # {}
    /\ \A p \in Supporting(a) : Hidden(p)

HoldsBypass ==
    /\ call.requestor.kind \in {"staff", "app"}
    /\ permission_manage_products \in call.requestor.permissions

\* C1 as stated: to a requestor without manage_products (anonymous, customer,
\* staff or app without the permission) the filter never returns an attribute
\* whose only supporting products in the container and channel are unpublished
\* or not visible in listings.
C1_Original ==
    (ContainerCall /\ ~HoldsBypass /\ result.kind = "queryset")
        => \A a \in result.qs.items : ~OnlyHiddenSupport(a)

\* C1 (amended): to an anonymous requestor or a customer the filter never
\* returns an attribute whose only supporting products in the container and
\* channel are unpublished or, under in_category, not visible in listings.
C1_NoLeakToCustomers ==
    (ContainerCall /\ call.requestor.kind \in {"anonymous", "customer"})
        => /\ result.kind = "queryset"
           /\ \A a \in result.qs.items :
                 ~(/\ Supporting(a) # {}
                   /\ \A p \in Supporting(a) : HiddenFromCustomer(p))

C1_Witness ==
    /\ ContainerCall
    /\ call.requestor.kind = "customer"
    /\ call.field = "in_category"
    /\ result.kind = "queryset"
    /\ result.qs.items # {}
    /\ \E a \in call.qs.items : OnlyHiddenSupport(a) /\ a \notin result.qs.items

\* C2: a call with value "" or None returns the very queryset it was given,
\* whatever the field (supported or not), requestor and channel (None
\* included); nothing is raised and nothing is looked up.
C2_EmptyValueIsIdentity ==
    (FilterReturned /\ (call.value = Str("") \/ call.value = NoneValue))
        => /\ result.kind = "queryset"
           /\ result.qs = call.qs
           /\ result.lookups = {}

C2_Witness ==
    /\ FilterReturned
    /\ call.value = Str("")
    /\ call.field = "..."
    /\ call.channel_slug = NoChannel
    /\ result.kind = "queryset"
    /\ result.qs = call.qs

\* C3: a call with a non-empty value and a field that is neither in_category
\* nor in_collection raises NotImplementedError with the single argument
\* "Filtering by <field_name> is unsupported" and returns no queryset.
C3_UnsupportedFieldRaises ==
    (/\ FilterReturned
     /\ call.value \notin {Str(""), NoneValue}
     /\ call.field \notin {"in_category", "in_collection"})
        => /\ result.kind = "error"
           /\ result.exc = "NotImplementedError"
           /\ result.args = <<"Filtering by " \o call.field \o " is unsupported">>

C3_Witness ==
    /\ FilterReturned
    /\ call.field = "in_space"
    /\ call.value = Str("a-value")
    /\ call.requestor.kind = "customer"
    /\ call.channel_slug = channel_USD
    /\ result = [kind |-> "error", exc |-> "NotImplementedError",
                 args |-> <<"Filtering by in_space is unsupported">>]

\* C4: under in_category, a global ID whose pk matches no category yields
\* queryset.none() of the input queryset, whatever the queryset holds, and
\* raises nothing.
C4_NonExistingCategoryIsNone ==
    (GidCall /\ call.field = "in_category" /\ call.value.pk \notin Categories)
        => /\ result.kind = "queryset"
           /\ result.qs = [obj |-> Append(call.qs.obj, "none"), items |-> {}]

C4_Witness ==
    /\ GidCall
    /\ call.field = "in_category"
    /\ call.value = to_global_id("Category", NonExistingPk)
    /\ call.requestor.kind = "customer"
    /\ call.qs.items = Attributes
    /\ result.kind = "queryset"
    /\ result.qs.obj = <<"all", "none">>

\* C5: to a staff user or an app holding manage_products, in_category and
\* in_collection return every attribute of the queryset that is assigned to the
\* product type of a product of the container listed in the channel, also when
\* every such product is unpublished or not visible in listings.
C5_BypassSeesHidden ==
    (ContainerCall /\ HoldsBypass)
        => /\ result.kind = "queryset"
           /\ \A a \in call.qs.items :
                 Supporting(a) # {} => a \in result.qs.items

C5_Witness ==
    /\ ContainerCall
    /\ HoldsBypass
    /\ call.requestor.kind = "staff"
    /\ result.kind = "queryset"
    /\ \E a \in result.qs.items : OnlyHiddenSupport(a)

\* C6: a staff user or an app without manage_products is still returned the
\* attributes whose only supporting product is unpublished or not visible in
\* listings; the result equals the one for the same requestor holding the
\* permission.
C6_StaffWithoutPermSeesHidden ==
    (/\ ContainerCall
     /\ call.requestor.kind \in {"staff", "app"}
     /\ permission_manage_products \notin call.requestor.permissions)
        => /\ result.kind = "queryset"
           /\ \A a \in call.qs.items :
                 Supporting(a) # {} => a \in result.qs.items
           /\ result = filter_attributes_by_product_types(
                           call.qs, call.field, call.value,
                           Requestor(call.requestor.kind,
                                     {permission_manage_products}),
                           call.channel_slug)

C6_Witness ==
    /\ ContainerCall
    /\ call.requestor = Requestor("app", {})
    /\ result.kind = "queryset"
    /\ \E a \in result.qs.items : OnlyHiddenSupport(a)

OnlyPublishedNotVisibleSupport(a) ==
    /\ Supporting(a) # {}
    /\ \A p \in Supporting(a) :
          ListingOf(p).is_published /\ ~ListingOf(p).visible_in_listings

\* C7: for a customer, an attribute whose supporting products are all
\* published but not visible in listings is returned under in_collection and
\* is not returned under in_category.
C7_CollectionIgnoresVisibleInListings ==
    (ContainerCall /\ call.requestor.kind = "customer")
        => /\ result.kind = "queryset"
           /\ \A a \in call.qs.items :
                 OnlyPublishedNotVisibleSupport(a)
                    => (a \in result.qs.items <=> call.field = "in_collection")

C7_Witness ==
    /\ ContainerCall
    /\ call.requestor.kind = "customer"
    /\ call.field = "in_collection"
    /\ result.kind = "queryset"
    /\ \E a \in result.qs.items : OnlyPublishedNotVisibleSupport(a)

\* C8 as stated: for an existing container the result is exactly the
\* attributes of the queryset with a supporting product that is listed in the
\* channel and, unless the requestor holds manage_products, published and
\* visible in listings.
C8_Original ==
    ContainerCall
        => /\ result.kind = "queryset"
           /\ result.qs.items =
                 {a \in call.qs.items :
                     \E p \in Supporting(a) : HoldsBypass \/ ~Hidden(p)}

\* C8 (amended): for an existing container the result is exactly the
\* attributes of the queryset with a supporting product that is listed in the
\* channel and, unless the requestor is a staff user or an app, published and,
\* under in_category, visible in listings.
C8_ExactResult ==
    ContainerCall
        => /\ result.kind = "queryset"
           /\ result.qs.obj = Append(call.qs.obj, "filter")
           /\ result.qs.items =
                 {a \in call.qs.items :
                     \E p \in Supporting(a) :
                        \/ call.requestor.kind \in {"staff", "app"}
                        \/ ~HiddenFromCustomer(p)}

C8_Witness ==
    /\ ContainerCall
    /\ call.requestor.kind = "anonymous"
    /\ call.qs.items = Attributes
    /\ result.kind = "queryset"
    /\ result.qs.items # {}
    /\ result.qs.items # Attributes
    /\ \E a \in Attributes \ result.qs.items : Supporting(a) # {}

\* C9: under a supported field, a non-empty value that is not a global ID, or
\* a global ID of a container that does not exist, yields an empty result and
\* no error.
C9_BadIdIsEmpty ==
    (/\ FilterReturned
     /\ call.field \in {"in_category", "in_collection"}
     /\ call.value \notin {Str(""), NoneValue}
     /\ \/ call.value.tag = "str"
        \/ call.value.tag = "gid" /\ ~CalledContainerExists)
        => /\ result.kind = "queryset"
           /\ result.qs.items = {}

C9_Witness ==
    /\ FilterReturned
    /\ call.field = "in_collection"
    /\ call.value = Str("a-value")
    /\ call.qs.items = Attributes
    /\ result.kind = "queryset"
    /\ result.qs.items = {}

(* ===================== properties of the type filter =================== *)

TypeReturned ==
    /\ pc = "returned"
    /\ call.op = "filter_attribute_type"

OtherType(value) == CHOOSE t \in AttributeTypes : t # value

\* C10: the type filter returns exactly the attributes of the queried type;
\* the PAGE_TYPE and the PRODUCT_TYPE results of a queryset are disjoint and
\* together make up the queryset.
C10_TypePartition ==
    TypeReturned
        => /\ result.kind = "queryset"
           /\ result.qs.items =
                 {a \in call.qs.items : attribute_type[a] = call.value}
           /\ LET other ==
                     filter_attribute_type(call.qs, OtherType(call.value)).items
              IN /\ result.qs.items \cap other = {}
                 /\ result.qs.items \cup other = call.qs.items

C10_Witness ==
    /\ TypeReturned
    /\ call.value = "PAGE_TYPE"
    /\ call.qs.items = Attributes
    /\ result.qs.items # {}
    /\ result.qs.items # Attributes

(* ===================== properties of the ids filter ==================== *)

IdsReturned ==
    /\ pc = "returned"
    /\ call.op = "filter_ids"

CalledIds == {call.ids[i] : i \in DOMAIN call.ids}

\* C11: the ids filter returns exactly the attributes of the queryset whose
\* global ID is in the list, each of them once, and no other attribute.
C11_IdsExact ==
    IdsReturned
        => /\ result.kind = "edges"
           /\ {result.edges[i] : i \in DOMAIN result.edges} =
                 {a \in call.qs.items : to_global_id("Attribute", a) \in CalledIds}
           /\ \A i, j \in DOMAIN result.edges :
                 result.edges[i] = result.edges[j] => i = j

C11_Witness ==
    /\ IdsReturned
    /\ call.qs.items = Attributes
    /\ \E i, j \in DOMAIN call.ids : i # j /\ call.ids[i] = call.ids[j]
    /\ to_global_id("Attribute", NonExistingPk) \in CalledIds
    /\ Len(result.edges) = 1

(* ================== properties of the display flag filters ============= *)

FlagReturned ==
    /\ pc = "returned"
    /\ call.op = "filter_flag"

FlagOf(a) ==
    IF call.flag = "filterableInDashboard"
    THEN filterable_in_dashboard[a]
    ELSE available_in_grid[a]

\* C12: filtering by filterableInDashboard: true or availableInGrid: true
\* returns exactly the attributes of the queryset whose flag is true; an
\* attribute whose flag was set to false is not returned, the others are.
C12_FlagExact ==
    (FlagReturned /\ call.value = TRUE)
        => /\ result.kind = "queryset"
           /\ result.qs.items = {a \in call.qs.items : FlagOf(a) = TRUE}

C12_Witness ==
    /\ FlagReturned
    /\ call.flag = "filterableInDashboard"
    /\ call.qs.items = Attributes
    /\ filterable_in_dashboard[1] = FALSE
    /\ available_in_grid[1] = TRUE
    /\ result.kind = "queryset"
    /\ result.qs.items = Attributes \ {1}
    /\ result.qs.items # {}

(* ====================== frame and monotonicity ========================= *)

\* C13: a call of filter_attributes_by_product_types, whatever its outcome
\* (a result, an empty result or an error), leaves the store as it was:
\* attributes, product types, products, collection membership, channel
\* listings and permissions.
C13_ReadOnly ==
    [][(pc = "idle" /\ pc' = "returned"
           /\ call'.op = "filter_attributes_by_product_types")
          => store' = store]_vars

C13_Witness ==
    /\ FilterReturned
    /\ result.kind = "error"
    /\ product_types = ProductTypePks
    /\ collection_products[1] # {}
    /\ user_permissions # {}
    /\ \E l \in DOMAIN channel_listings : ~channel_listings[l].is_published

WithBypass(kind) ==
    filter_attributes_by_product_types(
        call.qs, call.field, call.value,
        Requestor(kind, {permission_manage_products}), call.channel_slug)

\* C14: for the same queryset, field, value, channel and store, the result
\* for a requestor without manage_products is a subset of the result for a
\* staff user or app holding it, and both are subsets of the input queryset.
C14_Monotone ==
    (FilterReturned /\ ~HoldsBypass /\ result.kind = "queryset")
        => \A kind \in {"staff", "app"} :
              /\ WithBypass(kind).kind = "queryset"
              /\ result.qs.items \subseteq WithBypass(kind).qs.items
              /\ WithBypass(kind).qs.items \subseteq call.qs.items

C14_Witness ==
    /\ ContainerCall
    /\ call.requestor.kind = "customer"
    /\ result.kind = "queryset"
    /\ result.qs.items # WithBypass("staff").qs.items
    /\ result.qs.items \subseteq WithBypass("staff").qs.items
    /\ WithBypass("staff").qs.items # call.qs.items

(* ===================== properties of migration 0029 ==================== *)

ChoiceValues(f) == {f.choices[i][1] : i \in DOMAIN f.choices}

WellFormed(f) ==
    /\ f.default = "kg"
    /\ f.default \in ChoiceValues(f)
    /\ Len(f.choices) = 8
    /\ \A i, j \in DOMAIN f.choices :
          f.choices[i][1] = f.choices[j][1] => i = j
    /\ f.max_length = 30
    /\ \A v \in ChoiceValues(f) : Len(v) <= f.max_length

\* C15: once migration 0029 is applied, sitesettings.default_weight_unit has
\* the default "kg" among its eight choices, the choice values are distinct
\* and no longer than max_length 30; applying the migration changes no other
\* field and no other model.
C15_MigrationWellFormed ==
    /\ [](Migration0029 \in applied_migrations
             => WellFormed(schema[AlteredField]))
    /\ [][/\ DOMAIN schema' = DOMAIN schema
          /\ \A f \in DOMAIN schema \ {AlteredField} : schema'[f] = schema[f]]_vars

C15_Witness ==
    /\ Migration0029 \in applied_migrations
    /\ schema[AlteredField] = default_weight_unit
    /\ schema[<<"product", "default_weight_unit">>].default = "lb"
    /\ schema[<<"product", "default_weight_unit">>].max_length = 10
    /\ schema[<<"sitesettings", "name">>].default = "oz"

====
